---- MODULE Spec2Model ----
\* gitticketstat (src/index.js): per-ticket churn statistics from a git log.
\* The model follows run(): getLog -> parseGitNumstat -> analyzeCommits ->
\* resolveOutputPath -> saveStatisticsAsCsv, with the fold of analyzeCommits
\* unrolled to one step per ticket mention.
EXTENDS Integers, Sequences, FiniteSets

\* ------------------------------------------------------------------ bounds
\* The size of the text `git log --numstat` prints, in units: one per commit,
\* one per word of a commit message, one per numstat entry and one per line a
\* numstat entry reports as added or deleted.
MaxLogSize == 7

\* ------------------------------------------------------- program constants
defaultTicketPattern == "[A-Z]+-\\d+"
defaultFileName == "gitticketstat.csv"

\* --------------------------------------------------------------- inputs
\* A commit message is a sequence of words; a word is the unit the ticket
\* patterns below match or skip.
Words == {"PROJ-1", "PROJ-2", "fix"}

\* --ticket-pattern values: absent (minimist leaves the key undefined), a valid
\* custom expression, and an expression RegExp rejects.
NoPattern == ""
CustomPattern == "[a-z]+"
InvalidPattern == "("
UserPatterns == {NoPattern, CustomPattern, InvalidPattern}

UserOutputPath == "out"

\* The numstat entries of size exactly n.
FileStatsOfSize(n) ==
  { fs \in [added : 0..n, deleted : 0..n] : 1 + fs.added + fs.deleted = n }

\* The numstat lists of one commit, of size exactly n.
RECURSIVE StatsOfSize(_)
StatsOfSize(n) ==
  IF n = 0 THEN { <<>> }
  ELSE UNION { { <<fs>> \o rest : fs \in FileStatsOfSize(k), rest \in StatsOfSize(n - k) }
               : k \in 1..n }

StatsBySize == [n \in 0..MaxLogSize |-> StatsOfSize(n)]

\* The commits of size exactly n, as parse-git-numstat returns them.
CommitsOfSize(n) ==
  UNION { { [message |-> msg, stat |-> st] :
              msg \in [1..k -> Words], st \in StatsBySize[n - 1 - k] }
          : k \in 0..(n - 1) }

CommitsBySize == [n \in 1..MaxLogSize |-> CommitsOfSize(n)]

RECURSIVE StatSize(_)
StatSize(stat) ==
  IF stat = <<>> THEN 0
  ELSE 1 + Head(stat).added + Head(stat).deleted + StatSize(Tail(stat))

RECURSIVE LogSize(_)
LogSize(log) ==
  IF log = <<>> THEN 0
  ELSE 1 + Len(Head(log).message) + StatSize(Head(log).stat) + LogSize(Tail(log))

PositionalCounts == {1, 2, 3}

Argvs == [version : BOOLEAN, help : BOOLEAN, positional : PositionalCounts,
          ticketPattern : UserPatterns]

\* ------------------------------------------------------ the ticket pattern
\* new RegExp(ticketPattern, 'g') throws a SyntaxError on a malformed pattern.
\* A RegExp constructor that accepts everything.
MutValidPattern(p) == TRUE
ValidPattern(p) == p # InvalidPattern

\* Whether the regular expression p matches the word w.
Matches(p, w) ==
  CASE p = defaultTicketPattern -> w \in {"PROJ-1", "PROJ-2"}
    [] p = CustomPattern -> w = "fix"
    [] OTHER -> FALSE

\* message.match(ticketRegExp) || [] : every match, left to right, repeats kept;
\* null (no match) becomes the empty list.
\* A match that returns every word of the message.
MutMatch(p, message) == message

\* A match list that keeps the first occurrence of each ticket only.
RECURSIVE Dedup(_)
Dedup(tickets) ==
  IF tickets = <<>> THEN <<>>
  ELSE LET front == Dedup(SubSeq(tickets, 1, Len(tickets) - 1))
           last == tickets[Len(tickets)]
       IN  IF \E k \in DOMAIN front : front[k] = last THEN front ELSE Append(front, last)

MutDedupMatch(p, message) == Dedup(SelectSeq(message, LAMBDA w : Matches(p, w)))

Match(p, message) == SelectSeq(message, LAMBDA w : Matches(p, w))

\* ------------------------------------------------------------ commitReducer
\* commit.stat.reduce(statReducer, {added: 0, deleted: 0, total: 0}); the
\* total key of the seed is never read and is left out.
RECURSIVE StatReduce(_, _)
StatReduce(acc, stat) ==
  IF stat = <<>> THEN acc
  ELSE StatReduce([added |-> Head(stat).added + acc.added,
                   deleted |-> Head(stat).deleted + acc.deleted], Tail(stat))

ShortStat(commit) == StatReduce([added |-> 0, deleted |-> 0], commit.stat)

\* ticketStatAccumulator.find(ticketStat => ticketStat.ticket === ticket): the
\* index of the first entry of that ticket, 0 for undefined.
\* A find that never finds.
MutFind(acc, ticket) == 0
Find(acc, ticket) ==
  IF \E k \in DOMAIN acc : acc[k].ticket = ticket
  THEN CHOOSE k \in DOMAIN acc :
         /\ acc[k].ticket = ticket
         /\ \A l \in DOMAIN acc : acc[l].ticket = ticket => k <= l
  ELSE 0

NewTicketStat(ticket, ss) ==
  [ticket |-> ticket, added |-> ss.added, deleted |-> ss.deleted,
   total |-> ss.added + ss.deleted, commits |-> 1]

\* Variants of the forEach body with one slip each: total without deleted,
\* deleted not added, commits not incremented, assignment for +=, and a
\* new ticket replacing the accumulator.
MutTotalProcessTicket(acc, ticket, ss) ==
  LET k == Find(acc, ticket) IN
  IF k # 0
  THEN [acc EXCEPT ![k] = [ticket |-> @.ticket, added |-> @.added + ss.added,
                           deleted |-> @.deleted + ss.deleted,
                           total |-> @.total + ss.added,
                           commits |-> @.commits + 1]]
  ELSE Append(acc, NewTicketStat(ticket, ss))

MutDeletedProcessTicket(acc, ticket, ss) ==
  LET k == Find(acc, ticket) IN
  IF k # 0
  THEN [acc EXCEPT ![k] = [ticket |-> @.ticket, added |-> @.added + ss.added,
                           deleted |-> @.deleted,
                           total |-> @.total + ss.added + ss.deleted,
                           commits |-> @.commits + 1]]
  ELSE Append(acc, NewTicketStat(ticket, ss))

MutCommitsProcessTicket(acc, ticket, ss) ==
  LET k == Find(acc, ticket) IN
  IF k # 0
  THEN [acc EXCEPT ![k] = [ticket |-> @.ticket, added |-> @.added + ss.added,
                           deleted |-> @.deleted + ss.deleted,
                           total |-> @.total + ss.added + ss.deleted,
                           commits |-> @.commits]]
  ELSE Append(acc, NewTicketStat(ticket, ss))

MutAssignProcessTicket(acc, ticket, ss) ==
  LET k == Find(acc, ticket) IN
  IF k # 0
  THEN [acc EXCEPT ![k] = [ticket |-> @.ticket, added |-> ss.added,
                           deleted |-> ss.deleted,
                           total |-> ss.added + ss.deleted,
                           commits |-> @.commits + 1]]
  ELSE Append(acc, NewTicketStat(ticket, ss))

MutResetProcessTicket(acc, ticket, ss) ==
  LET k == Find(acc, ticket) IN
  IF k # 0
  THEN [acc EXCEPT ![k] = [ticket |-> @.ticket, added |-> @.added + ss.added,
                           deleted |-> @.deleted + ss.deleted,
                           total |-> @.total + ss.added + ss.deleted,
                           commits |-> @.commits + 1]]
  ELSE <<NewTicketStat(ticket, ss)>>

\* One call of the forEach callback (lines 40-66).
ProcessTicket(acc, ticket, ss) ==
  LET k == Find(acc, ticket) IN
  IF k # 0
  THEN [acc EXCEPT ![k] = [ticket |-> @.ticket, added |-> @.added + ss.added,
                           deleted |-> @.deleted + ss.deleted,
                           total |-> @.total + ss.added + ss.deleted,
                           commits |-> @.commits + 1]]
  ELSE Append(acc, NewTicketStat(ticket, ss))

\* ticketsMatchedInCommit.forEach(...) over a whole list of tickets.
RECURSIVE ForEach(_, _, _)
ForEach(acc, tickets, ss) ==
  IF tickets = <<>> THEN acc
  ELSE ForEach(ProcessTicket(acc, Head(tickets), ss), Tail(tickets), ss)

commitReducer(p, acc, commit) == ForEach(acc, Match(p, commit.message), ShortStat(commit))

\* commits.reduce(commitReducer, []) with a valid pattern.
RECURSIVE Reduce(_, _, _)
Reduce(p, acc, cs) ==
  IF cs = <<>> THEN acc ELSE Reduce(p, commitReducer(p, acc, Head(cs)), Tail(cs))

analyzeCommits(cs, p) == Reduce(p, <<>>, cs)

\* ------------------------------------------------------------------ state
VARIABLES
  argv,                    \* minimist(process.argv.slice(2))
  pc,                      \* where run() is
  exitStatus,              \* the status the process ends with
  execOutcome,             \* what exec did for getLog: "none" until it settles
  stdout,                  \* what git log --numstat has printed, as the commits it parses to
  gitLog,                  \* what getLog returned
  commits,                 \* parseGitNumstat(gitLog)
  ticketPattern,           \* argv['ticket-pattern'] || defaultTicketPattern
  ticketStatAccumulator,   \* the accumulator of commits.reduce
  accumulatorAtEntry,      \* the accumulator as the current commitReducer call got it
  commitIndex,             \* the commit commits.reduce is at (1-based)
  ticketsMatchedInCommit,  \* of the commit being reduced
  shortStat,               \* of the commit being reduced
  ticketIndex,             \* the mention forEach is at (1-based)
  statistics,              \* what analyzeCommits returned
  outputPath,              \* what resolveOutputPath returned
  csvFile,                 \* the output file
  called                   \* the functions run() has called so far

vars == <<argv, pc, exitStatus, execOutcome, stdout, gitLog, commits, ticketPattern,
          ticketStatAccumulator, accumulatorAtEntry, commitIndex,
          ticketsMatchedInCommit, shortStat, ticketIndex, statistics, outputPath,
          csvFile, called>>

foldVars == <<ticketStatAccumulator, accumulatorAtEntry, commitIndex,
              ticketsMatchedInCommit, shortStat, ticketIndex>>

NoShortStat == [added |-> 0, deleted |-> 0]
NoFile == [exists |-> FALSE, path |-> "", records |-> <<>>]

Init ==
  /\ argv \in Argvs
  /\ pc = "run"
  /\ exitStatus = 0
  /\ execOutcome = "none"
  /\ stdout = <<>>
  /\ gitLog = <<>>
  /\ commits = <<>>
  /\ ticketPattern = ""
  /\ ticketStatAccumulator = <<>>
  /\ accumulatorAtEntry = <<>>
  /\ commitIndex = 0
  /\ ticketsMatchedInCommit = <<>>
  /\ shortStat = NoShortStat
  /\ ticketIndex = 0
  /\ statistics = <<>>
  /\ outputPath = ""
  /\ csvFile = NoFile
  /\ called = {}

\* catch (error) { console.error(error); process.exit(1); }
Catch ==
  /\ pc' = "exited"
  /\ exitStatus' = 1

\* run(), lines 116-135: --version and --help / wrong argument count return
\* before the pipeline; the process then ends with status 0.
RunArgs ==
  /\ pc = "run"
  /\ IF argv.version \/ argv.help \/ argv.positional # 2
     THEN pc' = "exited"
     ELSE pc' = "getLog"
  /\ UNCHANGED <<argv, exitStatus, execOutcome, stdout, gitLog, commits, ticketPattern,
                 foldVars, statistics, outputPath, csvFile, called>>

\* Line 17: the git child process prints one more commit, which exec buffers.
GitPrintsCommit ==
  /\ pc = "getLog"
  /\ \E n \in 1..(MaxLogSize - LogSize(stdout)) :
       \E c \in CommitsBySize[n] : stdout' = Append(stdout, c)
  /\ UNCHANGED <<argv, pc, exitStatus, execOutcome, gitLog, commits, ticketPattern,
                 foldVars, statistics, outputPath, csvFile, called>>

\* getLog, lines 16-22, as awaited at line 138: exec resolves with an empty
\* stderr and getLog returns stdout.
GetLogReturns ==
  /\ pc = "getLog"
  /\ execOutcome' = "ok"
  /\ gitLog' = stdout
  /\ called' = called \cup {"getLog"}
  /\ pc' = "parse"
  /\ UNCHANGED <<argv, exitStatus, stdout, commits, ticketPattern, foldVars,
                 statistics, outputPath, csvFile>>

\* A getLog that returns stdout whatever stderr holds.
MutGetLogThrows ==
  /\ pc = "getLog"
  /\ execOutcome' \in {"rejected", "stderr"}
  /\ gitLog' = stdout
  /\ called' = called \cup {"getLog"}
  /\ pc' = "parse"
  /\ UNCHANGED <<argv, exitStatus, stdout, commits, ticketPattern, foldVars,
                 statistics, outputPath, csvFile>>

\* exec rejects (bad path, git missing, non-zero exit), or resolves with text on
\* stderr, which getLog throws: the catch of run() ends the process.
GetLogThrows ==
  /\ pc = "getLog"
  /\ execOutcome' \in {"rejected", "stderr"}
  /\ called' = called \cup {"getLog"}
  /\ Catch
  /\ UNCHANGED <<argv, stdout, gitLog, commits, ticketPattern, foldVars, statistics,
                 outputPath, csvFile>>

\* Lines 139-140: parseGitNumstat(gitLog), then the pattern to use.
ParseGitNumstat ==
  /\ pc = "parse"
  /\ commits' = gitLog
  /\ ticketPattern' = IF argv.ticketPattern # NoPattern THEN argv.ticketPattern
                      ELSE defaultTicketPattern
  /\ called' = called \cup {"parseGitNumstat"}
  /\ pc' = "analyze"
  /\ UNCHANGED <<argv, exitStatus, execOutcome, stdout, gitLog, foldVars, statistics,
                 outputPath, csvFile>>

\* Line 141 entering analyzeCommits, line 25: the RegExp is built before
\* commits.reduce starts; a SyntaxError goes to the catch of run().
AnalyzeCommits ==
  /\ pc = "analyze"
  /\ called' = called \cup {"analyzeCommits"}
  /\ IF ValidPattern(ticketPattern)
     THEN /\ pc' = "reduce"
          /\ commitIndex' = 1
          /\ UNCHANGED exitStatus
     ELSE /\ Catch
          /\ UNCHANGED commitIndex
  /\ UNCHANGED <<argv, execOutcome, stdout, gitLog, commits, ticketPattern,
                 ticketStatAccumulator, accumulatorAtEntry, ticketsMatchedInCommit,
                 shortStat, ticketIndex, statistics, outputPath, csvFile>>

\* commitReducer is entered for the next commit: lines 27-39.
CommitReducerEnter ==
  /\ pc = "reduce"
  /\ commitIndex <= Len(commits)
  /\ shortStat' = ShortStat(commits[commitIndex])
  /\ ticketsMatchedInCommit' = Match(ticketPattern, commits[commitIndex].message)
  /\ accumulatorAtEntry' = ticketStatAccumulator
  /\ ticketIndex' = 1
  /\ pc' = "forEach"
  /\ UNCHANGED <<argv, exitStatus, execOutcome, stdout, gitLog, commits, ticketPattern,
                 ticketStatAccumulator, commitIndex, statistics, outputPath, csvFile,
                 called>>

\* One iteration of ticketsMatchedInCommit.forEach: lines 40-66.
ForEachTicket ==
  /\ pc = "forEach"
  /\ ticketIndex <= Len(ticketsMatchedInCommit)
  /\ ticketStatAccumulator' =
       ProcessTicket(ticketStatAccumulator, ticketsMatchedInCommit[ticketIndex], shortStat)
  /\ ticketIndex' = ticketIndex + 1
  /\ UNCHANGED <<argv, pc, exitStatus, execOutcome, stdout, gitLog, commits, ticketPattern,
                 accumulatorAtEntry, commitIndex, ticketsMatchedInCommit, shortStat,
                 statistics, outputPath, csvFile, called>>

\* return ticketStatAccumulator: line 68.
CommitReducerReturn ==
  /\ pc = "forEach"
  /\ ticketIndex > Len(ticketsMatchedInCommit)
  /\ commitIndex' = commitIndex + 1
  /\ ticketsMatchedInCommit' = <<>>
  /\ shortStat' = NoShortStat
  /\ ticketIndex' = 0
  /\ accumulatorAtEntry' = <<>>
  /\ pc' = "reduce"
  /\ UNCHANGED <<argv, exitStatus, execOutcome, stdout, gitLog, commits, ticketPattern,
                 ticketStatAccumulator, statistics, outputPath, csvFile, called>>

\* commits.reduce returns: line 71, assigned at line 141.
AnalyzeCommitsReturn ==
  /\ pc = "reduce"
  /\ commitIndex > Len(commits)
  /\ statistics' = ticketStatAccumulator
  /\ pc' = "resolve"
  /\ UNCHANGED <<argv, exitStatus, execOutcome, stdout, gitLog, commits, ticketPattern,
                 foldVars, outputPath, csvFile, called>>

\* resolveOutputPath, lines 74-88: never throws.
ResolveOutputPath ==
  /\ pc = "resolve"
  /\ \E statOutcome \in {"directory", "file", "error"} :
       outputPath' = IF statOutcome = "directory"
                     THEN UserOutputPath \o "/" \o defaultFileName
                     ELSE UserOutputPath
  /\ called' = called \cup {"resolveOutputPath"}
  /\ pc' = "save"
  /\ UNCHANGED <<argv, exitStatus, execOutcome, stdout, gitLog, commits, ticketPattern,
                 foldVars, statistics, csvFile>>

\* saveStatisticsAsCsv, lines 90-103: the write succeeds or rejects.
SaveStatisticsAsCsv ==
  /\ pc = "save"
  /\ called' = called \cup {"saveStatisticsAsCsv"}
  /\ \/ /\ csvFile' = [exists |-> TRUE, path |-> outputPath, records |-> statistics]
        /\ pc' = "exited"
        /\ UNCHANGED exitStatus
     \/ /\ Catch
        /\ UNCHANGED csvFile
  /\ UNCHANGED <<argv, execOutcome, stdout, gitLog, commits, ticketPattern, foldVars,
                 statistics, outputPath>>

Next ==
  \/ RunArgs
  \/ GitPrintsCommit
  \/ GetLogReturns
  \/ GetLogThrows
  \/ ParseGitNumstat
  \/ AnalyzeCommits
  \/ CommitReducerEnter
  \/ ForEachTicket
  \/ CommitReducerReturn
  \/ AnalyzeCommitsReturn
  \/ ResolveOutputPath
  \/ SaveStatisticsAsCsv

Spec == Init /\ [][Next]_vars

\* ------------------------------------------------- vocabulary of the claims
TicketsIn(acc) == { acc[k].ticket : k \in DOMAIN acc }

\* analyzeCommits has just returned its result to run(), line 141.
FoldDone == pc = "resolve"

\* The fold of analyzeCommits is running.
InFold == pc \in {"reduce", "forEach"}

\* The run entered the pipeline of run(), lines 137-147: neither --version nor
\* --help / usage.
PipelineRun == ~argv.version /\ ~argv.help /\ argv.positional = 2

RECURSIVE SumTo(_, _)
SumTo(F, n) == IF n = 0 THEN 0 ELSE F[n] + SumTo(F, n - 1)

\* How often the word t, as a match of pattern p, occurs in the commit's message.
Occurrences(p, t, commit) ==
  IF Matches(p, t)
  THEN Cardinality({ k \in DOMAIN commit.message : commit.message[k] = t })
  ELSE 0

AddedOf(commit) == SumTo([f \in DOMAIN commit.stat |-> commit.stat[f].added], Len(commit.stat))
DeletedOf(commit) ==
  SumTo([f \in DOMAIN commit.stat |-> commit.stat[f].deleted], Len(commit.stat))

\* Sums over every occurrence of t in every commit of cs.
MentionsIn(p, t, cs) == SumTo([c \in DOMAIN cs |-> Occurrences(p, t, cs[c])], Len(cs))
AddedIn(p, t, cs) ==
  SumTo([c \in DOMAIN cs |-> Occurrences(p, t, cs[c]) * AddedOf(cs[c])], Len(cs))
DeletedIn(p, t, cs) ==
  SumTo([c \in DOMAIN cs |-> Occurrences(p, t, cs[c]) * DeletedOf(cs[c])], Len(cs))

\* The commits of cs whose message mentions t at least once.
CommitsMentioning(p, t, cs) == { c \in DOMAIN cs : Occurrences(p, t, cs[c]) > 0 }

\* The statistics of ticket t in acc, all zero when acc has no entry of t.
StatOf(acc, t) ==
  IF t \in TicketsIn(acc)
  THEN LET e == acc[CHOOSE k \in DOMAIN acc : acc[k].ticket = t]
       IN  [added |-> e.added, deleted |-> e.deleted, total |-> e.total,
            commits |-> e.commits]
  ELSE [added |-> 0, deleted |-> 0, total |-> 0, commits |-> 0]

\* A collection of TicketStats as a mapping from ticket to statistics.
AsMap(acc) == [t \in TicketsIn(acc) |-> StatOf(acc, t)]

MapGet(m, t) ==
  IF t \in DOMAIN m THEN m[t] ELSE [added |-> 0, deleted |-> 0, total |-> 0, commits |-> 0]

\* Pointwise addition of two mappings.
Merge(m1, m2) ==
  [t \in DOMAIN m1 \cup DOMAIN m2 |->
     [added |-> MapGet(m1, t).added + MapGet(m2, t).added,
      deleted |-> MapGet(m1, t).deleted + MapGet(m2, t).deleted,
      total |-> MapGet(m1, t).total + MapGet(m2, t).total,
      commits |-> MapGet(m1, t).commits + MapGet(m2, t).commits]]

TotalIsSum(acc) == \A k \in DOMAIN acc : acc[k].total = acc[k].added + acc[k].deleted

UniqueTickets(acc) ==
  \A k, l \in DOMAIN acc : acc[k].ticket = acc[l].ticket => k = l

\* ---------------------------------------------------------------- claims
\* C1: after every accumulator update of the fold (each ticket mention), and in
\* the result and the written records, every TicketStat has
\* total = added + deleted.
C1_TotalIsAddedPlusDeleted ==
  /\ TotalIsSum(ticketStatAccumulator)
  /\ TotalIsSum(statistics)
  /\ TotalIsSum(csvFile.records)

\* C1 witness: in the middle of a forEach, an entry that was updated (not only
\* created) with a non-zero diff.
C1_Witness ==
  /\ pc = "forEach"
  /\ ticketIndex > 1
  /\ ticketIndex <= Len(ticketsMatchedInCommit)
  /\ \E k \in DOMAIN ticketStatAccumulator :
       /\ ticketStatAccumulator[k].commits >= 2
       /\ ticketStatAccumulator[k].total > 0

\* C2: the result has an entry for ticket t exactly when some commit message
\* mentions t, and its added, deleted and commits are the sums, over every
\* occurrence of t in every commit, of the commit's summed per-file added, its
\* summed per-file deleted, and 1.
C2_ResultIsSumOverMentions ==
  FoldDone =>
    \A t \in Words :
      /\ (t \in TicketsIn(statistics)) <=> (MentionsIn(ticketPattern, t, commits) > 0)
      /\ \A k \in DOMAIN statistics :
           statistics[k].ticket = t =>
             /\ statistics[k].added = AddedIn(ticketPattern, t, commits)
             /\ statistics[k].deleted = DeletedIn(ticketPattern, t, commits)
             /\ statistics[k].commits = MentionsIn(ticketPattern, t, commits)

\* C2 witness: a ticket with several mentions whose statistics sum the lines of
\* a commit that touches two files, with lines added and lines deleted.
C2_Witness ==
  /\ FoldDone
  /\ \E k \in DOMAIN statistics :
       /\ statistics[k].commits >= 2
       /\ statistics[k].added > 0
       /\ statistics[k].deleted > 0
       /\ \E c \in CommitsMentioning(ticketPattern, statistics[k].ticket, commits) :
            Len(commits[c].stat) = 2

\* C3: when one commit's message mentions a ticket twice, processing that commit
\* raises the ticket's commits by 2 and adds the commit's summed added, deleted
\* and added + deleted twice, whether the ticket had a TicketStat before the
\* commit or the first of the two mentions created it.
C3_TwoMentionsCountTwice ==
  (pc = "forEach" /\ ticketIndex > Len(ticketsMatchedInCommit)) =>
    \A t \in Words :
      Occurrences(ticketPattern, t, commits[commitIndex]) = 2 =>
        LET before == StatOf(accumulatorAtEntry, t)
            after == StatOf(ticketStatAccumulator, t)
            a == AddedOf(commits[commitIndex])
            d == DeletedOf(commits[commitIndex])
        IN  /\ after.commits = before.commits + 2
            /\ after.added = before.added + 2 * a
            /\ after.deleted = before.deleted + 2 * d
            /\ after.total = before.total + 2 * (a + d)

\* C3 witness: the forEach of a commit with a non-zero diff has finished, and
\* the commit mentions twice a ticket that had a TicketStat before it.
C3_Witness ==
  /\ pc = "forEach"
  /\ ticketIndex > Len(ticketsMatchedInCommit)
  /\ \E t \in TicketsIn(accumulatorAtEntry) :
       Occurrences(ticketPattern, t, commits[commitIndex]) = 2
  /\ AddedOf(commits[commitIndex]) + DeletedOf(commits[commitIndex]) > 0

\* C4 as stated: commits of each TicketStat of the result is the number of
\* distinct commits whose message mentions the ticket.
C4_CommitsCountsDistinctCommits ==
  FoldDone =>
    \A k \in DOMAIN statistics :
      statistics[k].commits =
        Cardinality(CommitsMentioning(ticketPattern, statistics[k].ticket, commits))

\* C4 amended: commits of each TicketStat of the result is the number of
\* mentions of the ticket over all commit messages; it is never below the
\* number of distinct commits mentioning the ticket, and equals it exactly when
\* no commit message mentions the ticket more than once.
C4_CommitsCountsMentions ==
  FoldDone =>
    \A k \in DOMAIN statistics :
      LET t == statistics[k].ticket
          distinct == Cardinality(CommitsMentioning(ticketPattern, t, commits))
          once == \A c \in DOMAIN commits : Occurrences(ticketPattern, t, commits[c]) <= 1
      IN  /\ statistics[k].commits = MentionsIn(ticketPattern, t, commits)
          /\ statistics[k].commits >= distinct
          /\ (statistics[k].commits = distinct) <=> once

\* C4 witness: a ticket mentioned three times by two commits.
C4_Witness ==
  /\ FoldDone
  /\ \E k \in DOMAIN statistics :
       /\ statistics[k].commits = 3
       /\ Cardinality(CommitsMentioning(ticketPattern, statistics[k].ticket, commits)) = 2

\* C5: for every split of the commit sequence into a prefix and a suffix,
\* analyzing the two separately and adding the two results pointwise per ticket
\* gives the mapping that analyzing the whole sequence gives, in either order of
\* the two parts.
C5_SplitAndMerge ==
  FoldDone =>
    \A n \in 0..Len(commits) :
      LET s1 == SubSeq(commits, 1, n)
          s2 == SubSeq(commits, n + 1, Len(commits))
          r1 == AsMap(analyzeCommits(s1, ticketPattern))
          r2 == AsMap(analyzeCommits(s2, ticketPattern))
      IN  /\ Merge(r1, r2) = AsMap(statistics)
          /\ Merge(r2, r1) = AsMap(statistics)
          /\ AsMap(analyzeCommits(s2 \o s1, ticketPattern)) = AsMap(statistics)

\* C5 witness: two commits share a ticket with a non-zero diff, and the two
\* orders of the commits list the tickets differently.
C5_Witness ==
  /\ FoldDone
  /\ Len(commits) = 2
  /\ \E k \in DOMAIN statistics :
       /\ Cardinality(CommitsMentioning(ticketPattern, statistics[k].ticket, commits)) = 2
       /\ statistics[k].total > 0
  /\ analyzeCommits(<<commits[2], commits[1]>>, ticketPattern) # statistics

\* C6: while a commit whose message has no match of the ticket pattern is being
\* reduced, no step changes the accumulator, whatever the commit's numstat is.
NoMatchCommit ==
  /\ InFold
  /\ commitIndex \in DOMAIN commits
  /\ \A k \in DOMAIN commits[commitIndex].message :
       ~Matches(ticketPattern, commits[commitIndex].message[k])

C6_Step ==
  NoMatchCommit =>
    /\ ticketStatAccumulator' = ticketStatAccumulator
    /\ pc = "forEach" => pc' = "reduce"

\* C6: every step taken while a commit without a match is being reduced leaves
\* the accumulator unchanged: no TicketStat is created and none is modified.
C6_NoMatchLeavesAccumulator == [][C6_Step]_vars

\* C6 witness: a commit with words but no match, and lines added or deleted,
\* has just been reduced over an accumulator that held a TicketStat.
C6_Witness ==
  /\ pc = "reduce"
  /\ commitIndex > 1
  /\ ticketStatAccumulator # <<>>
  /\ LET c == commits[commitIndex - 1]
     IN  /\ c.message # <<>>
         /\ \A k \in DOMAIN c.message : ~Matches(ticketPattern, c.message[k])
         /\ AddedOf(c) + DeletedOf(c) > 0

\* C7: at every step of the fold, in the result and in the written records, no
\* two TicketStats have the same ticket.
C7_TicketsAreUnique ==
  /\ UniqueTickets(ticketStatAccumulator)
  /\ UniqueTickets(statistics)
  /\ UniqueTickets(csvFile.records)

\* C7 witness: one message mentioned twice a ticket not seen before, and both
\* mentions went to one entry.
C7_Witness ==
  /\ pc = "forEach"
  /\ ticketIndex = 3
  /\ ticketsMatchedInCommit[1] = ticketsMatchedInCommit[2]
  /\ ticketsMatchedInCommit[1] \notin TicketsIn(accumulatorAtEntry)
  /\ accumulatorAtEntry # <<>>
  /\ Len(ticketStatAccumulator) = Len(accumulatorAtEntry) + 1

C9_GetLogFailureAborts ==
  execOutcome \in {"rejected", "stderr"} =>
    /\ pc = "exited"
    /\ exitStatus = 1
    /\ called = {"getLog"}
    /\ commits = <<>>
    /\ ticketPattern = ""
    /\ statistics = <<>>
    /\ outputPath = ""
    /\ ~csvFile.exists

\* C9 witness: git printed commits and text on stderr, and the run ended.
C9_Witness ==
  /\ execOutcome = "stderr"
  /\ stdout # <<>>
  /\ pc = "exited"
  /\ exitStatus = 1

\* C10: in the fold, the set of tickets of the accumulator only grows; an entry
\* is appended exactly by the step that processes a mention of a ticket without
\* an entry; a mention of a ticket with an entry updates that entry in place
\* and leaves the others as they are; no other step touches the accumulator.
C10_Step ==
  LET acc == ticketStatAccumulator
      acc2 == ticketStatAccumulator'
  IN  /\ TicketsIn(acc) \subseteq TicketsIn(acc2)
      /\ IF pc = "forEach" /\ ticketIndex <= Len(ticketsMatchedInCommit)
         THEN LET t == ticketsMatchedInCommit[ticketIndex]
              IN  IF t \in TicketsIn(acc)
                  THEN /\ Len(acc2) = Len(acc)
                       /\ \A k \in DOMAIN acc :
                            /\ acc2[k].ticket = acc[k].ticket
                            /\ acc[k].ticket # t => acc2[k] = acc[k]
                            /\ acc[k].ticket = t => acc2[k].commits = acc[k].commits + 1
                  ELSE /\ Len(acc2) = Len(acc) + 1
                       /\ SubSeq(acc2, 1, Len(acc)) = acc
                       /\ acc2[Len(acc2)].ticket = t
                       /\ acc2[Len(acc2)].commits = 1
         ELSE acc2 = acc

\* C10: every step keeps the tickets the accumulator has, creates a TicketStat
\* only at the first mention of its ticket, and updates it in place afterwards.
C10_CreatedOnceNeverRemoved == [][C10_Step]_vars

\* C10 witness: two tickets have entries, one of them updated after the other
\* was created.
C10_Witness ==
  /\ pc = "forEach"
  /\ Len(ticketStatAccumulator) = 2
  /\ ticketStatAccumulator[1].commits >= 2
  /\ ticketIndex = 4

====
